---- MODULE Spec2Model ----
(***************************************************************************)
(* CoinbaseWSClient (src/app/core/ws_client.py): the streaming client's    *)
(* public start()/stop(), the background thread's _run / _try_run_sdk /    *)
(* _run_raw_ws and the message router _route_message, as a state machine.  *)
(*                                                                         *)
(* A transport object (raw WebSocketApp or SDK WSClient) is named by the   *)
(* background thread that constructed it: one run of _run constructs at    *)
(* most one of each.  0 stands for Python's None.  Positions are named by  *)
(* the source line the thread is about to execute.                         *)
(***************************************************************************)
EXTENDS Integers, Sequences, FiniteSets, TLC

\* ---- bounds of the model ----
MaxThreads == 2          \* background threads start() may create in one run
MaxMsgs == 2             \* inbound messages routed in one run
MaxFrames == 2           \* malformed inbound frames handled in one run
FailsCap == 2            \* the count of consecutive failed attempts saturates here

\* ---- program constants ----
SLEEP_AFTER_ERROR == 3   \* time.sleep(3) after run_forever raised
SLEEP_RECONNECT == 1     \* time.sleep(1) before every reconnect

\* the application calls start()/stop() from one thread (its event loop or main thread)
Callers == {"app"}
\* a consumer callback that calls stop(); it runs on the background thread cb_on
CallbackCaller == "callback"
\* a second thread of the application that calls start() on the same client
SecondCaller == "worker"
AllCallers == Callers \cup {SecondCaller, CallbackCaller}
Threads == 1..MaxThreads
None == 0
Callbacks == {"on_ticker", "on_candle", "on_heartbeat"}

\* a decoded message: the values of its "channel" and "type" keys;
\* Absent is what dict.get returns for a missing key (None)
Absent == "<absent>"
ChannelValues == {"ticker", "ticker_batch", "candles", "candle", "heartbeat", "heartbeats",
                  "subscriptions", "error", "bogus", "", Absent}
TypeValues == {"ticker", Absent}
\* the messages a feed delivers: every channel value without a legacy "type" key, and
\* with one for the channel values where the two keys disagree about the callback
Messages ==
    {m \in [channel : ChannelValues, type : TypeValues] :
        m.type = Absent \/ m.channel \in {"", Absent, "candle", "subscriptions"}}

VARIABLES
    use_sdk_preferred,   \* self.use_sdk_preferred
    sdk_lib,             \* "from coinbase.websocket import WSClient" succeeds
    ws_lib,              \* "import websocket" succeeds
    on_registered,       \* the callbacks given to the constructor (the others are None)
    products_arg,        \* the products argument of the constructor
    granularity_arg,     \* the granularity argument of the constructor
    ctor_ret,            \* how the constructor ended: "none" (not yet called), "ok", "raised"
    products,            \* self.products
    granularity,         \* self.granularity
    client_instance,     \* WebSocketService.client_instance: None or a client, named by
                         \*   the background thread it creates
    data_storage,        \* WebSocketService.data_storage: per key <<>> (None) or <<message>>
    svc_pc,              \* position of the service call that is running, or "idle"
    svc_ret,             \* what the last service call returned
    subscribe_msgs,      \* the subscribe requests _run_raw_ws built last (lines 213-230)
    cb_on,               \* the background thread a callback that calls stop() runs on, or None
    frames,              \* the kinds of the frames handed to _on_message, in order
    escaped_at,          \* index in frames of the first frame whose handling raised, or 0
    executing,           \* the dispatching threads that are inside a consumer callback
    sent,                \* per background thread: the subscribe requests sent on the
                         \*   connection its transport holds, in order
    thread,              \* self._thread: None or a background thread
    stop_event,          \* self._stop_event
    ws,                  \* self._ws: None or a WebSocketApp
    sdk_client,          \* self._sdk_client: None or an SDK WSClient
    bgpc,                \* position of every background thread
    rf,                  \* the WebSocketApp whose run_forever a thread is in
    keep_running,        \* WebSocketApp.keep_running of every WebSocketApp
    sock,                \* per WebSocketApp: the thread whose run_forever holds its open socket
    sdk_conn,            \* per SDK client: "none", "open", "closed"
    sdk_thread,          \* per SDK client: its internal thread "none", "alive", "dead"
    callerpc,            \* position of every caller inside start()/stop()
    join_on,             \* per caller: the thread object its join() waits for
    join_limits,         \* per caller: timeouts of the joins its current stop() has called,
                         \*   in units of stop()'s timeout argument
    ret,                 \* per caller: how its last call ended
    fell_back,           \* per background thread: _try_run_sdk returned False
    ended,               \* per background thread: how its last run_forever ended
    notified,            \* per background thread: the _on_error hook ran for that attempt
    fails,               \* per background thread: consecutive attempts that never connected
    delay,               \* per background thread: seconds slept since its last run_forever ended
    prev_delay,          \* per background thread: seconds slept before its last attempt
    inbox,               \* the decoded messages handed to _route_message, in order
    invoked,             \* the callbacks _route_message has called, in order
    raised_at            \* index in inbox of the first message whose callback raised, or 0

vars == <<use_sdk_preferred, sdk_lib, ws_lib, on_registered, products_arg, granularity_arg,
          ctor_ret, products, granularity, client_instance, data_storage, svc_pc, svc_ret,
          subscribe_msgs, cb_on, frames, escaped_at, executing, sent,
          thread, stop_event, ws,
          sdk_client, bgpc, rf, keep_running, sock, sdk_conn, sdk_thread, callerpc,
          join_on, join_limits, ret, fell_back, ended, notified, fails, delay,
          prev_delay, inbox, invoked, raised_at>>

svcVars == <<client_instance, data_storage, svc_pc, svc_ret>>
cfgVars == <<use_sdk_preferred, sdk_lib, ws_lib, on_registered, products_arg, granularity_arg,
            ctor_ret, products, granularity, svcVars>>
feedVars == <<subscribe_msgs, cb_on, frames, escaped_at, executing>>
ioVars == <<feedVars, sent>>
handleVars == <<thread, stop_event, ws, sdk_client>>
rawVars == <<rf, keep_running, sock>>
sdkVars == <<sdk_conn, sdk_thread>>
callVars == <<callerpc, join_on, join_limits, ret>>
loopVars == <<ended, notified, fails, delay, prev_delay>>
routeVars == <<inbox, invoked, raised_at>>

\* ---------------------------------------------------------- configuration

\* A str is the sequence of its characters; a granularity argument is None, a str or
\* an int (Optional[Union[str, int]]), tagged with its type.
NoneArg == [type |-> "none", text |-> <<>>, num |-> 0]
StrArg(text) == [type |-> "str", text |-> text, num |-> 0]
IntArg(num) == [type |-> "int", text |-> <<>>, num |-> num]

\* the values the resolver can return
CanonicalGranularities ==
    {"ONE_MINUTE", "FIVE_MINUTE", "FIFTEEN_MINUTE", "THIRTY_MINUTE", "ONE_HOUR", "ONE_DAY"}

LowerLetters == <<"a", "b", "c", "d", "e", "f", "g", "h", "i", "j", "k", "l", "m",
                  "n", "o", "p", "q", "r", "s", "t", "u", "v", "w", "x", "y", "z">>
UpperLetters == <<"A", "B", "C", "D", "E", "F", "G", "H", "I", "J", "K", "L", "M",
                  "N", "O", "P", "Q", "R", "S", "T", "U", "V", "W", "X", "Y", "Z">>
Whitespace == {" ", "\t", "\n"}

\* str.upper()
Upper(text) ==
    [i \in 1..Len(text) |->
        IF \E k \in 1..Len(LowerLetters) : LowerLetters[k] = text[i]
           THEN UpperLetters[CHOOSE k \in 1..Len(LowerLetters) : LowerLetters[k] = text[i]]
           ELSE text[i]]

\* str.strip()
RECURSIVE Strip(_)
Strip(text) ==
    IF text = <<>> THEN text
    ELSE IF Head(text) \in Whitespace THEN Strip(Tail(text))
    ELSE IF text[Len(text)] \in Whitespace THEN Strip(SubSeq(text, 1, Len(text) - 1))
    ELSE text

\* lines 11-26: GRANULARITY_MAP.get(key, "THIRTY_MINUTE"); a str key is only equal to
\* a str key of the dict and an int key only to an int key
GRANULARITY_MAP_get(arg) ==
    IF arg.type = "str" THEN
       (CASE arg.text = <<"1", "m">> -> "ONE_MINUTE"
            [] arg.text = <<"5", "m">> -> "FIVE_MINUTE"
            [] arg.text = <<"1", "5", "m">> -> "FIFTEEN_MINUTE"
            [] arg.text = <<"3", "0", "m">> -> "THIRTY_MINUTE"
            [] arg.text = <<"1", "h">> -> "ONE_HOUR"
            [] arg.text = <<"1", "d">> -> "ONE_DAY"
          [] OTHER -> "THIRTY_MINUTE")
    ELSE IF arg.type = "int" THEN
       (CASE arg.num = 60 -> "ONE_MINUTE"
            [] arg.num = 300 -> "FIVE_MINUTE"
            [] arg.num = 900 -> "FIFTEEN_MINUTE"
            [] arg.num = 1800 -> "THIRTY_MINUTE"
            [] arg.num = 3600 -> "ONE_HOUR"
            [] arg.num = 86400 -> "ONE_DAY"
          [] OTHER -> "THIRTY_MINUTE")
    ELSE "THIRTY_MINUTE"

\* lines 35-48: the alias dict of _resolve_granularity, or "" for a missing key
AliasOf(g) ==
    CASE g = <<"O", "N", "E", "_", "M", "I", "N", "U", "T", "E">> -> "ONE_MINUTE"
        [] g = <<"F", "I", "V", "E", "_", "M", "I", "N", "U", "T", "E">> -> "FIVE_MINUTE"
        [] g = <<"F", "I", "F", "T", "E", "E", "N", "_", "M", "I", "N", "U", "T", "E">> -> "FIFTEEN_MINUTE"
        [] g = <<"T", "H", "I", "R", "T", "Y", "_", "M", "I", "N", "U", "T", "E">> -> "THIRTY_MINUTE"
        [] g = <<"O", "N", "E", "_", "H", "O", "U", "R">> -> "ONE_HOUR"
        [] g = <<"O", "N", "E", "_", "D", "A", "Y">> -> "ONE_DAY"
        [] g = <<"1", "M">> -> "ONE_MINUTE"
        [] g = <<"5", "M">> -> "FIVE_MINUTE"
        [] g = <<"1", "5", "M">> -> "FIFTEEN_MINUTE"
        [] g = <<"3", "0", "M">> -> "THIRTY_MINUTE"
        [] g = <<"1", "H">> -> "ONE_HOUR"
        [] g = <<"1", "D">> -> "ONE_DAY"
      [] OTHER -> ""

\* a variant of the resolver that never normalises its argument
ResolveGranularity_MapOnly(arg) == GRANULARITY_MAP_get(arg)

\* a variant of the resolver that upper-cases its argument without stripping it
ResolveGranularity_NoStrip(arg) ==
    IF arg.type = "none" THEN "THIRTY_MINUTE"
    ELSE IF arg.type = "str" THEN
        IF AliasOf(Upper(arg.text)) # "" THEN AliasOf(Upper(arg.text))
        ELSE GRANULARITY_MAP_get(arg)
    ELSE GRANULARITY_MAP_get(arg)

\* lines 29-53: _resolve_granularity
ResolveGranularity(arg) ==
    IF arg.type = "none" THEN "THIRTY_MINUTE"
    ELSE IF arg.type = "str" THEN
        IF AliasOf(Upper(Strip(arg.text))) # "" THEN AliasOf(Upper(Strip(arg.text)))
        ELSE GRANULARITY_MAP_get(arg)
    ELSE GRANULARITY_MAP_get(arg)

\* a products argument is None or a list of product ids
ProductIds == {"BTC-USD", "ETH-USD"}
NoProducts == [none |-> TRUE, items |-> <<>>]
ProductList(items) == [none |-> FALSE, items |-> items]

\* a variant of line 75 that keeps the list it is given
ProductsOf_AsGiven(arg) == arg.items

\* line 75: products or ["BTC-USD"] (None and the empty list are false)
ProductsOf(arg) == IF arg.none \/ arg.items = <<>> THEN <<"BTC-USD">> ELSE arg.items

\* the arguments the configuration claims are checked for
ProductArgs ==
    {NoProducts, ProductList(<<>>), ProductList(<<"BTC-USD">>),
     ProductList(<<"ETH-USD", "BTC-USD">>)}

GranularityTexts ==
    {<<"1", "m">>,
     <<"5", "m">>,
     <<"1", "5", "m">>,
     <<"3", "0", "m">>,
     <<"1", "h">>,
     <<"1", "d">>,
     <<"O", "N", "E", "_", "M", "I", "N", "U", "T", "E">>,
     <<"F", "I", "V", "E", "_", "M", "I", "N", "U", "T", "E">>,
     <<"F", "I", "F", "T", "E", "E", "N", "_", "M", "I", "N", "U", "T", "E">>,
     <<"T", "H", "I", "R", "T", "Y", "_", "M", "I", "N", "U", "T", "E">>,
     <<"O", "N", "E", "_", "H", "O", "U", "R">>,
     <<"O", "N", "E", "_", "D", "A", "Y">>,
     <<"1", "M">>,
     <<"5", "M">>,
     <<"1", "5", "M">>,
     <<"3", "0", "M">>,
     <<"1", "H">>,
     <<"1", "D">>,
     <<"o", "n", "e", "_", "m", "i", "n", "u", "t", "e">>,
     <<"O", "n", "e", "_", "D", "a", "y">>,
     <<" ", "1", "m", " ">>,
     <<"1", "h", "\n">>,
     <<"6", "0">>,
     <<"3", "0", "0">>,
     <<"9", "0", "0">>,
     <<"1", "8", "0", "0">>,
     <<"3", "6", "0", "0">>,
     <<"8", "6", "4", "0", "0">>,
     <<"b", "o", "g", "u", "s">>,
     <<>>,
     <<"2", "h">>,
     <<"m", "1">>}

GranularityNumbers == {60, 300, 900, 1800, 3600, 86400, 0, 1, 61, 30}

GranularityArgs ==
    {NoneArg} \cup {StrArg(x) : x \in GranularityTexts} \cup {IntArg(n) : n \in GranularityNumbers}

\* the alias strings of the resolver as they are documented: the short forms in lower
\* case (lines 12-17) and the canonical names (lines 36-41)
AliasTexts ==
    {<<"1", "m">>, <<"5", "m">>, <<"1", "5", "m">>, <<"3", "0", "m">>, <<"1", "h">>, <<"1", "d">>,
     <<"O", "N", "E", "_", "M", "I", "N", "U", "T", "E">>,
     <<"F", "I", "V", "E", "_", "M", "I", "N", "U", "T", "E">>,
     <<"F", "I", "F", "T", "E", "E", "N", "_", "M", "I", "N", "U", "T", "E">>,
     <<"T", "H", "I", "R", "T", "Y", "_", "M", "I", "N", "U", "T", "E">>,
     <<"O", "N", "E", "_", "H", "O", "U", "R">>,
     <<"O", "N", "E", "_", "D", "A", "Y">>}

\* str.lower()
Lower(text) ==
    [i \in 1..Len(text) |->
        IF \E k \in 1..Len(UpperLetters) : UpperLetters[k] = text[i]
           THEN LowerLetters[CHOOSE k \in 1..Len(UpperLetters) : UpperLetters[k] = text[i]]
           ELSE text[i]]

\* a text with its characters alternately in lower and upper case, the characters at the
\* positions of the given parity in upper case
Alternating(text, parity) ==
    [i \in 1..Len(text) |->
        IF i % 2 = parity THEN Upper(<<text[i]>>)[1] ELSE Lower(<<text[i]>>)[1]]

\* mixes of upper and lower case of a text: as written, all upper, all lower, and
\* alternating from either case, so that every position occurs in both cases
CaseMixes(text) ==
    {text, Upper(text), Lower(text), Alternating(text, 0), Alternating(text, 1)}

\* the whitespace put before and after a text
Paddings == {<<>>, <<" ">>, <<"\n", "\t">>}

\* every alias string in every mix of case, with and without surrounding whitespace
AliasSpellings ==
    UNION {{before \o mix \o after : before \in Paddings, after \in Paddings,
                                      mix \in CaseMixes(alias)} : alias \in AliasTexts}

\* what the application passes: WebSocketService gives ["BTC-USD"] and "30m"
ServiceProducts == ProductList(<<"BTC-USD">>)
ServiceGranularity == StrArg(<<"3", "0", "m">>)

\* a variant of lines 213-230 whose heartbeats request is scoped to the products
SubscribeMsgs_HeartbeatsScoped(prods, gran) ==
    <<[type |-> "subscribe", product_ids |-> prods, channel |-> "ticker", granularity |-> Absent],
      [type |-> "subscribe", product_ids |-> prods, channel |-> "candles", granularity |-> gran],
      [type |-> "subscribe", product_ids |-> prods, channel |-> "heartbeats",
       granularity |-> Absent]>>

\* lines 213-230: the subscribe requests, in the order they are built
SubscribeMsgs(prods, gran) ==
    <<[type |-> "subscribe", product_ids |-> prods, channel |-> "ticker", granularity |-> Absent],
      [type |-> "subscribe", product_ids |-> prods, channel |-> "candles", granularity |-> gran],
      [type |-> "subscribe", product_ids |-> <<>>, channel |-> "heartbeats",
       granularity |-> Absent]>>

\* lines 164-166: the subscriptions the SDK's _on_open asks for, in order: ticker(products),
\* candles(products), heartbeats(); no call is given the granularity
SdkSubscribeCalls(prods) ==
    <<[type |-> "subscribe", product_ids |-> prods, channel |-> "ticker", granularity |-> Absent],
      [type |-> "subscribe", product_ids |-> prods, channel |-> "candles", granularity |-> Absent],
      [type |-> "subscribe", product_ids |-> <<>>, channel |-> "heartbeats",
       granularity |-> Absent]>>

\* lines 234-238 and 163-174: _on_open sends the requests in order inside one try block;
\* the first send that raises (failing, 0 when none does) ends the loop and is only logged
OnOpen(requests, failing) ==
    IF failing = 0 THEN requests ELSE SubSeq(requests, 1, failing - 1)

\* websocket_service.py lines 20-24: the keys of WebSocketService.data_storage
StorageKeys == {"ticker", "candle", "heartbeat"}

\* threading.Thread.is_alive(): started and not yet finished
IsAlive(t) == bgpc[t] \notin {"unborn", "created", "dead"}

\* the transports that hold an open connection
ActiveTransports ==
    {<<"raw", w>> : w \in {x \in Threads : sock[x] # None}}
        \cup {<<"sdk", s>> : s \in {x \in Threads : sdk_conn[x] = "open"}}

\* lines 84-87 and the bookkeeping of a client no call has touched yet
Untouched ==
    /\ client_instance = None
    /\ data_storage = [key \in StorageKeys |-> <<>>]
    /\ svc_pc = "idle"
    /\ svc_ret = "none"
    /\ subscribe_msgs = <<>>
    /\ cb_on = None
    /\ frames = <<>>
    /\ escaped_at = 0
    /\ executing = {}
    /\ sent = [t \in Threads |-> <<>>]
    /\ thread = None
    /\ stop_event = FALSE
    /\ ws = None
    /\ sdk_client = None
    /\ bgpc = [t \in Threads |-> "unborn"]
    /\ rf = [t \in Threads |-> None]
    /\ keep_running = [t \in Threads |-> FALSE]
    /\ sock = [t \in Threads |-> None]
    /\ sdk_conn = [t \in Threads |-> "none"]
    /\ sdk_thread = [t \in Threads |-> "none"]
    /\ callerpc = [c \in AllCallers |-> "idle"]
    /\ join_on = [c \in AllCallers |-> None]
    /\ join_limits = [c \in AllCallers |-> 0]
    /\ ret = [c \in AllCallers |-> "none"]
    /\ fell_back = [t \in Threads |-> FALSE]
    /\ ended = [t \in Threads |-> "none"]
    /\ notified = [t \in Threads |-> FALSE]
    /\ fails = [t \in Threads |-> 0]
    /\ delay = [t \in Threads |-> 0]
    /\ prev_delay = [t \in Threads |-> 0]
    /\ inbox = <<>>
    /\ invoked = <<>>
    /\ raised_at = 0

\* the state after CoinbaseWSClient.__init__ (lines 75-87), called with the products and
\* the granularity the application passes
Init ==
    /\ use_sdk_preferred \in BOOLEAN
    /\ sdk_lib \in BOOLEAN
    /\ ws_lib \in BOOLEAN
    /\ on_registered \in SUBSET Callbacks
    /\ products_arg = ServiceProducts
    /\ granularity_arg = ServiceGranularity
    /\ ctor_ret = "ok"
    /\ products = ProductsOf(products_arg)
    /\ granularity = ResolveGranularity(granularity_arg)
    /\ Untouched

\* lines 63-87: __init__ stores the products and the resolved granularity; it validates
\* nothing and raises nothing
Construct ==
    /\ ctor_ret = "none"
    /\ products' = ProductsOf(products_arg)
    /\ granularity' = ResolveGranularity(granularity_arg)
    /\ ctor_ret' = "ok"
    /\ UNCHANGED <<use_sdk_preferred, sdk_lib, ws_lib, on_registered, products_arg,
                   granularity_arg, svcVars, ioVars, handleVars, bgpc, rawVars, sdkVars, callVars,
                   fell_back, loopVars, routeVars>>

\* ------------------------------------------------------------------ start()

\* a start() that finds no guard: every call creates a thread
ThreadRunning_NoGuard == FALSE

\* line 92: self._thread and self._thread.is_alive()
ThreadRunning == thread # None /\ IsAlive(thread)

\* the next unused thread object
FreshThread ==
    CHOOSE t \in Threads : bgpc[t] = "unborn" /\ \A u \in Threads : bgpc[u] = "unborn" => t <= u

\* the application calls start()
CallStart(c) ==
    /\ callerpc[c] = "idle"
    /\ callerpc' = [callerpc EXCEPT ![c] = "start_92"]
    /\ UNCHANGED <<cfgVars, ioVars, handleVars, bgpc, rawVars, sdkVars, join_on, join_limits, ret,
                   fell_back, loopVars, routeVars>>

\* lines 92-93: a running thread makes start() return at once
Start92(c) ==
    /\ callerpc[c] = "start_92"
    /\ IF ThreadRunning
          THEN /\ callerpc' = [callerpc EXCEPT ![c] = "idle"]
               /\ ret' = [ret EXCEPT ![c] = "start_noop"]
          ELSE /\ callerpc' = [callerpc EXCEPT ![c] = "start_94"]
               /\ UNCHANGED ret
    /\ UNCHANGED <<cfgVars, ioVars, handleVars, bgpc, rawVars, sdkVars, join_on, join_limits,
                   fell_back, loopVars, routeVars>>

\* line 94: self._stop_event.clear()
Start94(c) ==
    /\ callerpc[c] = "start_94"
    /\ stop_event' = FALSE
    /\ callerpc' = [callerpc EXCEPT ![c] = "start_95"]
    /\ UNCHANGED <<cfgVars, ioVars, thread, ws, sdk_client, bgpc, rawVars, sdkVars, join_on,
                   join_limits, ret, fell_back, loopVars, routeVars>>

\* line 95: self._thread = threading.Thread(...), not yet started
Start95(c) ==
    /\ callerpc[c] = "start_95"
    /\ \E t \in Threads : bgpc[t] = "unborn"
    /\ thread' = FreshThread
    /\ bgpc' = [bgpc EXCEPT ![FreshThread] = "created"]
    /\ callerpc' = [callerpc EXCEPT ![c] = "start_96"]
    /\ UNCHANGED <<cfgVars, ioVars, stop_event, ws, sdk_client, rawVars, sdkVars, join_on,
                   join_limits, ret, fell_back, loopVars, routeVars>>

\* line 96: self._thread.start(); starting a started thread raises RuntimeError
Start96(c) ==
    /\ callerpc[c] = "start_96"
    /\ IF bgpc[thread] = "created"
          THEN /\ bgpc' = [bgpc EXCEPT ![thread] = "run"]
               /\ ret' = [ret EXCEPT ![c] = "start_new"]
          ELSE /\ UNCHANGED bgpc
               /\ ret' = [ret EXCEPT ![c] = "start_raised"]
    /\ callerpc' = [callerpc EXCEPT ![c] = "idle"]
    /\ UNCHANGED <<cfgVars, ioVars, handleVars, rawVars, sdkVars, join_on, join_limits,
                   fell_back, loopVars, routeVars>>

\* ------------------------------------------------------------------- stop()

\* the background thread a caller is running on; the application's thread is none of them
Self(c) == IF c = CallbackCaller THEN cb_on ELSE None

\* line 100: self._stop_event.set()
Stop100(c) ==
    /\ callerpc[c] = "idle"
    /\ stop_event' = TRUE
    /\ join_limits' = [join_limits EXCEPT ![c] = 0]
    /\ callerpc' = [callerpc EXCEPT ![c] = "stop_102"]
    /\ UNCHANGED <<cfgVars, ioVars, thread, ws, sdk_client, bgpc, rawVars, sdkVars, join_on, ret,
                   fell_back, loopVars, routeVars>>

\* lines 102-112: keep_running = False and close() on the raw WebSocketApp
Stop102(c) ==
    /\ callerpc[c] = "stop_102"
    /\ IF ws # None
          THEN /\ keep_running' = [keep_running EXCEPT ![ws] = FALSE]
               /\ sock' = [sock EXCEPT ![ws] = None]
          ELSE UNCHANGED <<keep_running, sock>>
    /\ callerpc' = [callerpc EXCEPT ![c] = "stop_113"]
    /\ UNCHANGED <<cfgVars, ioVars, handleVars, bgpc, rf, sdkVars, join_on, join_limits, ret,
                   fell_back, loopVars, routeVars>>

\* lines 113-126: close() the SDK client and stop its event loop
Stop113(c) ==
    /\ callerpc[c] = "stop_113"
    /\ IF sdk_client # None
          THEN /\ sdk_conn' = [sdk_conn EXCEPT ![sdk_client] =
                                  IF @ = "open" THEN "closed" ELSE @]
               /\ callerpc' = [callerpc EXCEPT ![c] = "stop_127"]
          ELSE /\ UNCHANGED sdk_conn
               /\ callerpc' = [callerpc EXCEPT ![c] = "stop_133"]
    /\ UNCHANGED <<cfgVars, ioVars, handleVars, bgpc, rawVars, sdk_thread, join_on, join_limits, ret,
                   fell_back, loopVars, routeVars>>

\* lines 127-129: th = getattr(self._sdk_client, "thread", None); th.join(timeout=timeout)
Stop127(c) ==
    /\ callerpc[c] = "stop_127"
    /\ IF sdk_client # None /\ sdk_thread[sdk_client] # "none"
          THEN /\ join_on' = [join_on EXCEPT ![c] = sdk_client]
               /\ join_limits' = [join_limits EXCEPT ![c] = @ + 1]
               /\ callerpc' = [callerpc EXCEPT ![c] = "stop_129"]
          ELSE /\ UNCHANGED <<join_on, join_limits>>
               /\ callerpc' = [callerpc EXCEPT ![c] = "stop_133"]
    /\ UNCHANGED <<cfgVars, ioVars, handleVars, bgpc, rawVars, sdkVars, ret, fell_back, loopVars,
                   routeVars>>

\* line 129: the join returns because the SDK thread has finished
Stop129Joined(c) ==
    /\ callerpc[c] = "stop_129"
    /\ sdk_thread[join_on[c]] # "alive"
    /\ join_on' = [join_on EXCEPT ![c] = None]
    /\ callerpc' = [callerpc EXCEPT ![c] = "stop_133"]
    /\ UNCHANGED <<cfgVars, ioVars, handleVars, bgpc, rawVars, sdkVars, join_limits, ret, fell_back,
                   loopVars, routeVars>>

\* line 129: the join returns because timeout seconds have passed
Stop129Timeout(c) ==
    /\ callerpc[c] = "stop_129"
    /\ sdk_thread[join_on[c]] = "alive"
    /\ join_on' = [join_on EXCEPT ![c] = None]
    /\ callerpc' = [callerpc EXCEPT ![c] = "stop_133"]
    /\ UNCHANGED <<cfgVars, ioVars, handleVars, bgpc, rawVars, sdkVars, join_limits, ret, fell_back,
                   loopVars, routeVars>>

\* line 134: Thread.join raises RuntimeError for a thread that was never started and
\* for the calling thread itself
JoinRaises(c) == bgpc[thread] = "created" \/ thread = Self(c)

\* lines 133-134: if self._thread: self._thread.join(timeout=timeout);
\* a RuntimeError of the join leaves stop() through its finally block
Stop133(c) ==
    /\ callerpc[c] = "stop_133"
    /\ IF thread = None
          THEN /\ UNCHANGED <<join_on, join_limits>>
               /\ ret' = [ret EXCEPT ![c] = "stop_returned"]
               /\ callerpc' = [callerpc EXCEPT ![c] = "idle"]
          ELSE IF JoinRaises(c)
          THEN /\ UNCHANGED <<join_on, join_limits>>
               /\ ret' = [ret EXCEPT ![c] = "stop_raised"]
               /\ callerpc' = [callerpc EXCEPT ![c] = "idle"]
          ELSE /\ join_on' = [join_on EXCEPT ![c] = thread]
               /\ join_limits' = [join_limits EXCEPT ![c] = @ + 1]
               /\ UNCHANGED ret
               /\ callerpc' = [callerpc EXCEPT ![c] = "stop_134"]
    /\ UNCHANGED <<cfgVars, ioVars, handleVars, bgpc, rawVars, sdkVars, fell_back, loopVars, routeVars>>

\* line 134: the join returns because the background thread has finished
Stop134Joined(c) ==
    /\ callerpc[c] = "stop_134"
    /\ ~IsAlive(join_on[c])
    /\ join_on' = [join_on EXCEPT ![c] = None]
    /\ ret' = [ret EXCEPT ![c] = "stop_returned"]
    /\ callerpc' = [callerpc EXCEPT ![c] = "idle"]
    /\ UNCHANGED <<cfgVars, ioVars, handleVars, bgpc, rawVars, sdkVars, join_limits, fell_back,
                   loopVars, routeVars>>

\* line 134: the join returns because timeout seconds have passed
Stop134Timeout(c) ==
    /\ callerpc[c] = "stop_134"
    /\ IsAlive(join_on[c])
    /\ join_on' = [join_on EXCEPT ![c] = None]
    /\ ret' = [ret EXCEPT ![c] = "stop_timeout"]
    /\ callerpc' = [callerpc EXCEPT ![c] = "idle"]
    /\ UNCHANGED <<cfgVars, ioVars, handleVars, bgpc, rawVars, sdkVars, join_limits, fell_back,
                   loopVars, routeVars>>

\* --------------------------------------------------- background thread: _run

\* a variant of _run for which a missing SDK library is fatal
Run139_MissingSdkFatal(t) ==
    /\ bgpc[t] = "run"
    /\ IF use_sdk_preferred /\ sdk_lib
          THEN /\ bgpc' = [bgpc EXCEPT ![t] = "sdk_178"]
               /\ UNCHANGED fell_back
          ELSE /\ bgpc' = [bgpc EXCEPT ![t] = IF use_sdk_preferred THEN "dead" ELSE "raw_197"]
               /\ fell_back' = [fell_back EXCEPT ![t] = use_sdk_preferred]
    /\ UNCHANGED <<cfgVars, ioVars, handleVars, rawVars, sdkVars, callVars, loopVars, routeVars>>

\* lines 139, 146-150: use_sdk_preferred and the import of the SDK
Run139(t) ==
    /\ bgpc[t] = "run"
    /\ IF use_sdk_preferred /\ sdk_lib
          THEN /\ bgpc' = [bgpc EXCEPT ![t] = "sdk_178"]
               /\ UNCHANGED fell_back
          ELSE /\ bgpc' = [bgpc EXCEPT ![t] = "raw_197"]
               /\ fell_back' = [fell_back EXCEPT ![t] = use_sdk_preferred]
    /\ UNCHANGED <<cfgVars, ioVars, handleVars, rawVars, sdkVars, callVars, loopVars, routeVars>>

\* line 178: self._sdk_client = CBWSClient(...), or the constructor raises
Sdk178(t) ==
    /\ bgpc[t] = "sdk_178"
    /\ \/ /\ sdk_client' = t
          /\ bgpc' = [bgpc EXCEPT ![t] = "sdk_179"]
       \/ /\ UNCHANGED sdk_client
          /\ bgpc' = [bgpc EXCEPT ![t] = "sdk_185"]
    /\ UNCHANGED <<cfgVars, ioVars, thread, stop_event, ws, rawVars, sdkVars, callVars, fell_back,
                   loopVars, routeVars>>

\* line 179: self._sdk_client.open() connects and calls _on_open (lines 162-174), which
\* subscribes; or open() raises
Sdk179(t) ==
    /\ bgpc[t] = "sdk_179"
    /\ \/ /\ sdk_client # None
          /\ sdk_conn' = [sdk_conn EXCEPT ![sdk_client] = "open"]
          /\ sdk_thread' = [sdk_thread EXCEPT ![sdk_client] = "alive"]
          /\ sent' = [sent EXCEPT ![sdk_client] = OnOpen(SdkSubscribeCalls(products), 0)]
          /\ bgpc' = [bgpc EXCEPT ![t] = "sdk_181"]
       \/ /\ UNCHANGED <<sdk_conn, sdk_thread, sent>>
          /\ bgpc' = [bgpc EXCEPT ![t] = "sdk_185"]
    /\ UNCHANGED <<cfgVars, feedVars, handleVars, rawVars, callVars, fell_back, loopVars, routeVars>>

\* lines 179, 162-174: open() connects and a subscribe call of _on_open raises because
\* the connection is already gone; _on_open logs it and open() returns normally
Sdk179SubscribeFails(t) ==
    /\ bgpc[t] = "sdk_179"
    /\ sdk_client # None
    /\ \E failing \in 1..Len(SdkSubscribeCalls(products)) :
          sent' = [sent EXCEPT ![sdk_client] = OnOpen(SdkSubscribeCalls(products), failing)]
    /\ sdk_conn' = [sdk_conn EXCEPT ![sdk_client] = "closed"]
    /\ sdk_thread' = [sdk_thread EXCEPT ![sdk_client] = "alive"]
    /\ bgpc' = [bgpc EXCEPT ![t] = "sdk_181"]
    /\ UNCHANGED <<cfgVars, feedVars, handleVars, rawVars, callVars, fell_back, loopVars, routeVars>>

\* lines 181-183: while not stop: sleep(0.2); return True, which ends _run
Sdk181(t) ==
    /\ bgpc[t] = "sdk_181"
    /\ stop_event
    /\ bgpc' = [bgpc EXCEPT ![t] = "dead"]
    /\ UNCHANGED <<cfgVars, ioVars, handleVars, rawVars, sdkVars, callVars, fell_back, loopVars, routeVars>>

\* lines 184-192: close the SDK client, forget it, return False
Sdk185(t) ==
    /\ bgpc[t] = "sdk_185"
    /\ sdk_conn' = IF sdk_client # None
                      THEN [sdk_conn EXCEPT ![sdk_client] = IF @ = "open" THEN "closed" ELSE @]
                      ELSE sdk_conn
    /\ sdk_client' = None
    /\ fell_back' = [fell_back EXCEPT ![t] = TRUE]
    /\ bgpc' = [bgpc EXCEPT ![t] = "raw_197"]
    /\ UNCHANGED <<cfgVars, ioVars, thread, stop_event, ws, rawVars, sdk_thread, callVars, loopVars,
                   routeVars>>

\* ------------------------------------------- background thread: _run_raw_ws

\* lines 196-207: import websocket; without it the thread reports and returns
Raw197(t) ==
    /\ bgpc[t] = "raw_197"
    /\ bgpc' = [bgpc EXCEPT ![t] = IF ws_lib THEN "raw_259" ELSE "dead"]
    /\ UNCHANGED <<cfgVars, ioVars, handleVars, rawVars, sdkVars, callVars, fell_back, loopVars, routeVars>>

\* lines 209-265: self._ws = websocket.WebSocketApp(...)
Raw259(t) ==
    /\ bgpc[t] = "raw_259"
    /\ subscribe_msgs' = SubscribeMsgs(products, granularity)
    /\ ws' = t
    /\ keep_running' = [keep_running EXCEPT ![t] = TRUE]
    /\ bgpc' = [bgpc EXCEPT ![t] = "raw_268"]
    /\ UNCHANGED <<cfgVars, cb_on, frames, escaped_at, executing, sent, thread, stop_event, sdk_client, rf, sock, sdkVars, callVars,
                   fell_back, loopVars, routeVars>>

\* the loop's local history ends with the thread
Forget(t) ==
    /\ ended' = [ended EXCEPT ![t] = "none"]
    /\ notified' = [notified EXCEPT ![t] = FALSE]
    /\ delay' = [delay EXCEPT ![t] = 0]
    /\ prev_delay' = [prev_delay EXCEPT ![t] = 0]
    /\ fails' = [fails EXCEPT ![t] = 0]

\* line 268: while not self._stop_event.is_set()
Raw268(t) ==
    /\ bgpc[t] = "raw_268"
    /\ bgpc' = [bgpc EXCEPT ![t] = IF stop_event THEN "dead" ELSE "raw_270"]
    /\ IF stop_event THEN Forget(t) ELSE UNCHANGED loopVars
    /\ UNCHANGED <<cfgVars, ioVars, handleVars, rawVars, sdkVars, callVars, fell_back, routeVars>>

\* an attempt has ended and the connection, if there was one, with it: the delay slept
\* before it becomes the previous delay; hook says whether websocket-client called
\* _on_error (lines 248-254) before run_forever ended
AttemptEnded(t, connected, how, hook) ==
    /\ sent' = [sent EXCEPT ![t] = <<>>]
    /\ ended' = [ended EXCEPT ![t] = how]
    /\ notified' = [notified EXCEPT ![t] = hook]
    /\ prev_delay' = [prev_delay EXCEPT ![t] = delay[t]]
    /\ delay' = [delay EXCEPT ![t] = 0]
    /\ fails' = [fails EXCEPT ![t] = IF connected THEN 0
                                     ELSE IF @ < FailsCap THEN @ + 1 ELSE @]

\* a variant of run_forever that calls _on_open on the first connection only
Raw270Connect_SubscribesOnce(t) ==
    /\ bgpc[t] = "raw_270"
    /\ sock[ws] = None
    /\ keep_running' = [keep_running EXCEPT ![ws] = TRUE]
    /\ sock' = [sock EXCEPT ![ws] = t]
    /\ rf' = [rf EXCEPT ![t] = ws]
    /\ sent' = [sent EXCEPT ![t] = IF ended[t] = "none" THEN OnOpen(subscribe_msgs, 0) ELSE <<>>]
    /\ bgpc' = [bgpc EXCEPT ![t] = "raw_recv"]
    /\ UNCHANGED <<cfgVars, feedVars, handleVars, sdkVars, callVars, fell_back, loopVars, routeVars>>

\* line 270: self._ws.run_forever(...) sets keep_running, connects and calls _on_open
\* (lines 232-238), which sends the subscribe requests before the first receive
Raw270Connect(t) ==
    /\ bgpc[t] = "raw_270"
    /\ sock[ws] = None
    /\ keep_running' = [keep_running EXCEPT ![ws] = TRUE]
    /\ sock' = [sock EXCEPT ![ws] = t]
    /\ rf' = [rf EXCEPT ![t] = ws]
    /\ sent' = [sent EXCEPT ![t] = OnOpen(subscribe_msgs, 0)]
    /\ bgpc' = [bgpc EXCEPT ![t] = "raw_recv"]
    /\ UNCHANGED <<cfgVars, feedVars, handleVars, sdkVars, callVars, fell_back, loopVars, routeVars>>

\* lines 270, 232-238: run_forever connects and a send of _on_open raises, which
\* websocket-client's send does for a connection that is closed or broken; _on_open logs
\* it, the requests after it are not sent and the receive finds the connection gone
Raw270ConnectSendFails(t) ==
    /\ bgpc[t] = "raw_270"
    /\ sock[ws] = None
    /\ keep_running' = [keep_running EXCEPT ![ws] = TRUE]
    /\ rf' = [rf EXCEPT ![t] = ws]
    /\ \E failing \in 1..Len(subscribe_msgs) :
          sent' = [sent EXCEPT ![t] = OnOpen(subscribe_msgs, failing)]
    /\ bgpc' = [bgpc EXCEPT ![t] = "raw_recv"]
    /\ UNCHANGED <<cfgVars, feedVars, handleVars, sock, sdkVars, callVars, fell_back, loopVars,
                   routeVars>>

\* line 270: the connection attempt fails and run_forever returns
Raw270Fail(t) ==
    /\ bgpc[t] = "raw_270"
    /\ sock[ws] = None
    /\ keep_running' = [keep_running EXCEPT ![ws] = TRUE]
    /\ AttemptEnded(t, FALSE, "returned", TRUE)
    /\ bgpc' = [bgpc EXCEPT ![t] = "raw_275"]
    /\ UNCHANGED <<cfgVars, feedVars, handleVars, rf, sock, sdkVars, callVars, fell_back, routeVars>>

\* lines 270-272: run_forever raises (always so when the socket is already open)
Raw270Raise(t) ==
    /\ bgpc[t] = "raw_270"
    /\ AttemptEnded(t, FALSE, "raised", FALSE)
    /\ bgpc' = [bgpc EXCEPT ![t] = "raw_273"]
    /\ UNCHANGED <<cfgVars, feedVars, handleVars, rawVars, sdkVars, callVars, fell_back, routeVars>>

\* inside run_forever: close() from stop() has closed the socket, the receive returns
RecvClosed(t) ==
    /\ bgpc[t] = "raw_recv"
    /\ sock[rf[t]] # t
    /\ \E hook \in BOOLEAN : AttemptEnded(t, TRUE, "returned", hook)
    /\ rf' = [rf EXCEPT ![t] = None]
    /\ bgpc' = [bgpc EXCEPT ![t] = "raw_275"]
    /\ UNCHANGED <<cfgVars, feedVars, handleVars, keep_running, sock, sdkVars, callVars, fell_back,
                   routeVars>>

\* inside run_forever: the feed closes the connection; nothing is reported to _on_error
RecvDisconnect(t) ==
    /\ bgpc[t] = "raw_recv"
    /\ sock[rf[t]] = t
    /\ sock' = [sock EXCEPT ![rf[t]] = None]
    /\ AttemptEnded(t, TRUE, "returned", FALSE)
    /\ rf' = [rf EXCEPT ![t] = None]
    /\ bgpc' = [bgpc EXCEPT ![t] = "raw_275"]
    /\ UNCHANGED <<cfgVars, feedVars, handleVars, keep_running, sdkVars, callVars, fell_back, routeVars>>

\* inside run_forever: the connection is lost (reset, ping timeout); websocket-client
\* reports it to _on_error (lines 248-254) and run_forever returns
RecvLost(t) ==
    /\ bgpc[t] = "raw_recv"
    /\ sock[rf[t]] = t
    /\ sock' = [sock EXCEPT ![rf[t]] = None]
    /\ AttemptEnded(t, TRUE, "returned", TRUE)
    /\ rf' = [rf EXCEPT ![t] = None]
    /\ bgpc' = [bgpc EXCEPT ![t] = "raw_275"]
    /\ UNCHANGED <<cfgVars, feedVars, handleVars, keep_running, sdkVars, callVars, fell_back, routeVars>>

\* inside run_forever: the connection breaks and run_forever raises
RecvRaise(t) ==
    /\ bgpc[t] = "raw_recv"
    /\ sock[rf[t]] = t
    /\ sock' = [sock EXCEPT ![rf[t]] = None]
    /\ \E hook \in BOOLEAN : AttemptEnded(t, TRUE, "raised", hook)
    /\ rf' = [rf EXCEPT ![t] = None]
    /\ bgpc' = [bgpc EXCEPT ![t] = "raw_273"]
    /\ UNCHANGED <<cfgVars, feedVars, handleVars, keep_running, sdkVars, callVars, fell_back, routeVars>>

\* a variant of line 273 that does not sleep after an error
Raw273_NoSleep(t) ==
    /\ bgpc[t] = "raw_273"
    /\ bgpc' = [bgpc EXCEPT ![t] = "raw_275"]
    /\ UNCHANGED <<cfgVars, ioVars, handleVars, rawVars, sdkVars, callVars, fell_back, loopVars,
                   routeVars>>

\* line 273: time.sleep(3)
Raw273(t) ==
    /\ bgpc[t] = "raw_273"
    /\ delay' = [delay EXCEPT ![t] = @ + SLEEP_AFTER_ERROR]
    /\ bgpc' = [bgpc EXCEPT ![t] = "raw_275"]
    /\ UNCHANGED <<cfgVars, ioVars, handleVars, rawVars, sdkVars, callVars, fell_back, ended,
                   notified, prev_delay, fails, routeVars>>

\* a variant of lines 275-276 that leaves the loop without looking at the stop event
Raw275_ExitsAlways(t) ==
    /\ bgpc[t] = "raw_275"
    /\ bgpc' = [bgpc EXCEPT ![t] = "dead"]
    /\ Forget(t)
    /\ UNCHANGED <<cfgVars, ioVars, handleVars, rawVars, sdkVars, callVars, fell_back, routeVars>>

\* lines 275-276: if self._stop_event.is_set(): break
Raw275(t) ==
    /\ bgpc[t] = "raw_275"
    /\ bgpc' = [bgpc EXCEPT ![t] = IF stop_event THEN "dead" ELSE "raw_278"]
    /\ IF stop_event THEN Forget(t) ELSE UNCHANGED loopVars
    /\ UNCHANGED <<cfgVars, ioVars, handleVars, rawVars, sdkVars, callVars, fell_back, routeVars>>

\* a variant of line 278 that re-enters _run, and so re-evaluates the backend, on a reconnect
Raw278_Reevaluates(t) ==
    /\ bgpc[t] = "raw_278"
    /\ delay' = [delay EXCEPT ![t] = @ + SLEEP_RECONNECT]
    /\ bgpc' = [bgpc EXCEPT ![t] = "run"]
    /\ UNCHANGED <<cfgVars, ioVars, handleVars, rawVars, sdkVars, callVars, fell_back, ended,
                   notified, prev_delay, fails, routeVars>>

\* a variant of line 278 whose sleep grows with the count of consecutive failed attempts
Raw278_Backoff(t) ==
    /\ bgpc[t] = "raw_278"
    /\ delay' = [delay EXCEPT ![t] = @ + SLEEP_RECONNECT * (1 + fails[t])]
    /\ bgpc' = [bgpc EXCEPT ![t] = "raw_268"]
    /\ UNCHANGED <<cfgVars, ioVars, handleVars, rawVars, sdkVars, callVars, fell_back, ended,
                   notified, prev_delay, fails, routeVars>>

\* line 278: time.sleep(1)
Raw278(t) ==
    /\ bgpc[t] = "raw_278"
    /\ delay' = [delay EXCEPT ![t] = @ + SLEEP_RECONNECT]
    /\ bgpc' = [bgpc EXCEPT ![t] = "raw_268"]
    /\ UNCHANGED <<cfgVars, ioVars, handleVars, rawVars, sdkVars, callVars, fell_back, ended,
                   notified, prev_delay, fails, routeVars>>

\* ----------------------------------------------------------- _route_message

\* a variant of line 283 that prefers the "type" key
ChannelOf_TypeFirst(m) == IF m.type \notin {Absent, ""} THEN m.type ELSE m.channel

\* line 283: data.get("channel") or data.get("type"); a missing key reads as None,
\* and None and "" are false
ChannelOf(m) == IF m.channel \notin {Absent, ""} THEN m.channel ELSE m.type

\* a variant of the dispatch that does not know the alias "candle"
HandlerOf_NoCandleAlias(channel) ==
    IF channel = "ticker" \/ channel = "ticker_batch" THEN "on_ticker"
    ELSE IF channel = "candles" THEN "on_candle"
    ELSE IF channel \in {"heartbeat", "heartbeats"} THEN "on_heartbeat"
    ELSE "none"

\* lines 285, 293, 301: the callback a channel is dispatched to
HandlerOf(channel) ==
    IF channel = "ticker" \/ channel = "ticker_batch" THEN "on_ticker"
    ELSE IF channel = "candles" \/ channel = "candle" THEN "on_candle"
    ELSE IF channel \in {"heartbeat", "heartbeats"} THEN "on_heartbeat"
    ELSE "none"

\* lines 286, 294, 302: if self.on_ticker: ... (an unregistered callback is not called)
CalledFor(m) ==
    IF HandlerOf(ChannelOf(m)) \in on_registered THEN HandlerOf(ChannelOf(m)) ELSE "none"

\* a variant of the router without the try/except around the callback
Propagates_Unguarded(raised) == raised

\* lines 287-290, 295-298, 303-306: try: callback(data) except Exception: pass
Propagates(raised) == FALSE

\* _route_message(m); raised says whether the callback, if one is called, raises
Route(m, raised) ==
    /\ Len(inbox) < MaxMsgs
    /\ inbox' = Append(inbox, m)
    /\ invoked' = IF CalledFor(m) = "none" THEN invoked ELSE Append(invoked, CalledFor(m))
    /\ raised_at' = IF raised_at = 0 /\ CalledFor(m) # "none" /\ raised
                       THEN Len(inbox) + 1 ELSE raised_at

\* the messages of either spelling: any tag, or none, under each of the two keys
TaggedMessages == [channel : ChannelValues, type : ChannelValues]

\* lines 281-314: _route_message called with one message of either spelling
RouteOne ==
    /\ inbox = <<>>
    /\ \E m \in TaggedMessages, raised \in BOOLEAN : Route(m, raised)
    /\ UNCHANGED <<cfgVars, ioVars, handleVars, bgpc, rawVars, sdkVars, callVars, fell_back,
                   loopVars>>

\* lines 240-246: a frame arrives inside run_forever and is routed on the background
\* thread; an exception that left the router would end run_forever and the connection
OnMessage(t) ==
    /\ bgpc[t] = "raw_recv"
    /\ sock[rf[t]] = t
    /\ \E m \in Messages, raised \in BOOLEAN :
          /\ Route(m, raised)
          /\ IF CalledFor(m) # "none" /\ Propagates(raised)
                THEN /\ bgpc' = [bgpc EXCEPT ![t] = "raw_273"]
                     /\ sock' = [sock EXCEPT ![rf[t]] = None]
                     /\ rf' = [rf EXCEPT ![t] = None]
                     /\ AttemptEnded(t, TRUE, "raised", FALSE)
                ELSE UNCHANGED <<bgpc, sock, rf, sent, loopVars>>
    /\ UNCHANGED <<cfgVars, feedVars, handleVars, keep_running, sdkVars, callVars, fell_back>>

\* lines 154-160: a frame arrives on an open SDK connection and is routed
SdkOnMessage(s) ==
    /\ sdk_conn[s] = "open"
    /\ \E m \in Messages, raised \in BOOLEAN :
          /\ Route(m, raised)
          /\ sdk_conn' = IF CalledFor(m) # "none" /\ Propagates(raised)
                            THEN [sdk_conn EXCEPT ![s] = "closed"]
                            ELSE sdk_conn
    /\ UNCHANGED <<cfgVars, ioVars, handleVars, bgpc, rawVars, sdk_thread, callVars, fell_back,
                   loopVars>>

\* -------------------------------------------------------------- _on_message

\* what a frame's text is: not JSON at all, or the JSON of a value that is not an object
MalformedKinds == {"not_json", "array", "string", "number", "null"}

\* lines 241-245 and 155-159: json.loads(message) succeeds
Decodes(kind) == kind # "not_json"

\* line 283: data.get("channel") on a decoded value that is not a dict raises
\* AttributeError, which nothing in _route_message or _on_message catches
RouteRaises(kind) == kind \in {"array", "string", "number", "null"}

\* _on_message(frame) for a malformed frame: it is dropped, or the router raises out of it
HandleFrame(kind) ==
    /\ Len(frames) < MaxFrames
    /\ frames' = Append(frames, kind)
    /\ escaped_at' = IF escaped_at = 0 /\ Decodes(kind) /\ RouteRaises(kind)
                        THEN Len(frames) + 1 ELSE escaped_at

\* lines 240-246: a malformed frame arrives inside run_forever; websocket-client calls
\* the handler inside its own try/except, so the receive goes on whatever the handler did
OnFrame(t) ==
    /\ bgpc[t] = "raw_recv"
    /\ sock[rf[t]] = t
    /\ \E kind \in MalformedKinds : HandleFrame(kind)
    /\ UNCHANGED <<cfgVars, subscribe_msgs, cb_on, executing, sent, handleVars, bgpc, rawVars, sdkVars,
                   callVars, fell_back, loopVars, routeVars>>

\* lines 154-160: a malformed frame arrives on an open SDK connection; what the SDK's
\* receive loop does with an exception of the handler is the SDK's choice: it goes on,
\* or it ends and the connection with it
SdkOnFrame(s) ==
    /\ sdk_conn[s] = "open"
    /\ \E kind \in MalformedKinds :
          /\ HandleFrame(kind)
          /\ \/ UNCHANGED sdk_conn
             \/ /\ Decodes(kind) /\ RouteRaises(kind)
                /\ sdk_conn' = [sdk_conn EXCEPT ![s] = "closed"]
    /\ UNCHANGED <<cfgVars, subscribe_msgs, cb_on, executing, sent, handleVars, bgpc, rawVars, sdk_thread,
                   callVars, fell_back, loopVars, routeVars>>

\* ---------------------------------------------------- stop() from a callback

\* lines 285-307: a callback of the consumer, called by the router on the raw backend's
\* thread t, is about to call stop()
CallbackEnters(t) ==
    /\ bgpc[t] = "raw_recv"
    /\ sock[rf[t]] = t
    /\ on_registered # {}
    /\ cb_on = None
    /\ callerpc[CallbackCaller] = "idle"
    /\ cb_on' = t
    /\ UNCHANGED <<cfgVars, subscribe_msgs, frames, escaped_at, executing, sent, handleVars, bgpc, rawVars,
                   sdkVars, callVars, fell_back, loopVars, routeVars>>

\* the callback's stop() has ended; the router swallows what it raised (lines 289, 297,
\* 305) and the thread is back in run_forever
CallbackReturns(t) ==
    /\ cb_on = t
    /\ callerpc[CallbackCaller] = "idle"
    /\ ret[CallbackCaller] # "none"
    /\ cb_on' = None
    /\ UNCHANGED <<cfgVars, subscribe_msgs, frames, escaped_at, executing, sent, handleVars, bgpc, rawVars,
                   sdkVars, callVars, fell_back, loopVars, routeVars>>

\* ------------------------------------------------- callbacks that take time

\* the thread a callback runs on: on the raw backend the background thread inside
\* run_forever (lines 240-246), on the SDK backend the SDK client's own thread (lines 154-160)
RawUnit(t) == <<"raw", t>>
SdkUnit(s) == <<"sdk", s>>

\* lines 240-246, 285-306: a message of a recognized channel arrives on the raw
\* connection and the router calls the consumer's callback on the background thread
RawCallbackBegins(t) ==
    /\ bgpc[t] = "raw_recv"
    /\ sock[rf[t]] = t
    /\ on_registered # {}
    /\ RawUnit(t) \notin executing
    /\ executing' = executing \cup {RawUnit(t)}
    /\ UNCHANGED <<cfgVars, subscribe_msgs, cb_on, frames, escaped_at, sent, handleVars, bgpc,
                   rawVars, sdkVars, callVars, fell_back, loopVars, routeVars>>

\* lines 154-160, 285-306: a message of a recognized channel arrives on an SDK
\* connection and the router calls the consumer's callback on that SDK client's thread
SdkCallbackBegins(s) ==
    /\ sdk_conn[s] = "open"
    /\ sdk_thread[s] = "alive"
    /\ on_registered # {}
    /\ SdkUnit(s) \notin executing
    /\ executing' = executing \cup {SdkUnit(s)}
    /\ UNCHANGED <<cfgVars, subscribe_msgs, cb_on, frames, escaped_at, sent, handleVars, bgpc,
                   rawVars, sdkVars, callVars, fell_back, loopVars, routeVars>>

\* the callback returns (or raises into the router's except clause) and its thread is
\* back in its receive
CallbackEnds(u) ==
    /\ u \in executing
    /\ executing' = executing \ {u}
    /\ UNCHANGED <<cfgVars, subscribe_msgs, cb_on, frames, escaped_at, sent, handleVars, bgpc,
                   rawVars, sdkVars, callVars, fell_back, loopVars, routeVars>>

\* ------------------------------------------------------------- environment

\* the feed closes an SDK connection (the client was built with retry=False, line 178)
SdkDisconnect(s) ==
    /\ sdk_conn[s] = "open"
    /\ sdk_conn' = [sdk_conn EXCEPT ![s] = "closed"]
    /\ UNCHANGED <<cfgVars, ioVars, handleVars, bgpc, rawVars, sdk_thread, callVars, fell_back,
                   loopVars, routeVars>>

\* the SDK's own thread finishes once its connection is closed
SdkThreadExit(s) ==
    /\ sdk_thread[s] = "alive"
    /\ sdk_conn[s] # "open"
    /\ sdk_thread' = [sdk_thread EXCEPT ![s] = "dead"]
    /\ UNCHANGED <<cfgVars, ioVars, handleVars, bgpc, rawVars, sdk_conn, callVars, fell_back,
                   loopVars, routeVars>>

\* --------------------------------------------------------- WebSocketService
\* (src/app/services/websocket_service.py).  The service's methods run on the event loop,
\* one at a time; the client's variables above are those of the client the service
\* created last.  A client the service has dropped keeps its thread, its stop event
\* (set, because the service drops a client only after stop()) and its WebSocketApp.

\* lines 96-101: client_instance is not None and its _thread is alive
ServiceRunning == client_instance # None /\ thread # None /\ IsAlive(thread)

\* lines 43-66: start_websocket; connect_coinbase_ws (ws_client.py lines 334-345) builds a
\* new client (lines 75-87) and calls its start() (lines 90-96), which creates and starts
\* the client's thread
StartWebsocket ==
    /\ svc_pc = "idle"
    /\ IF ServiceRunning
          THEN /\ svc_ret' = "already_running"
               /\ UNCHANGED <<client_instance, handleVars, bgpc, ret>>
          ELSE /\ \E t \in Threads : bgpc[t] = "unborn"
               /\ client_instance' = FreshThread
               /\ thread' = FreshThread
               /\ stop_event' = FALSE
               /\ ws' = None
               /\ sdk_client' = None
               /\ bgpc' = [bgpc EXCEPT ![FreshThread] = "run"]
               /\ ret' = [c \in AllCallers |-> IF c \in Callers THEN "start_new" ELSE ret[c]]
               /\ svc_ret' = "started"
    /\ UNCHANGED <<use_sdk_preferred, sdk_lib, ws_lib, on_registered, products_arg,
                   granularity_arg, ctor_ret, products, granularity, data_storage, svc_pc,
                   ioVars, rawVars, sdkVars, callerpc, join_on, join_limits, fell_back,
                   loopVars, routeVars>>

\* lines 72-78: stop_websocket returns at once without a client; otherwise it calls the
\* client's stop(), whose first statement sets the stop event (ws_client.py line 100)
StopWebsocket74 ==
    /\ svc_pc = "idle"
    /\ IF client_instance = None
          THEN /\ svc_ret' = "not_running"
               /\ UNCHANGED <<svc_pc, stop_event, callerpc, join_limits>>
          ELSE /\ svc_pc' = "stop_78"
               /\ stop_event' = TRUE
               /\ join_limits' = [c \in AllCallers |-> IF c \in Callers THEN 0 ELSE join_limits[c]]
               /\ callerpc' = [c \in AllCallers |->
                                  IF c \in Callers THEN "stop_102" ELSE callerpc[c]]
               /\ UNCHANGED svc_ret
    /\ UNCHANGED <<use_sdk_preferred, sdk_lib, ws_lib, on_registered, products_arg,
                   granularity_arg, ctor_ret, products, granularity, client_instance,
                   data_storage, ioVars, thread, ws, sdk_client, bgpc, rawVars, sdkVars,
                   join_on, ret, fell_back, loopVars, routeVars>>

\* lines 79-92: the client's stop() has returned, joined or timed out: the service drops
\* the client and clears the stored data; a stop() that raised is re-raised
StopWebsocket79 ==
    /\ svc_pc = "stop_78"
    /\ \A c \in Callers : callerpc[c] = "idle"
    /\ IF \E c \in Callers : ret[c] = "stop_raised"
          THEN /\ svc_ret' = "raised"
               /\ UNCHANGED <<client_instance, data_storage>>
          ELSE /\ client_instance' = None
               /\ data_storage' = [key \in StorageKeys |-> <<>>]
               /\ svc_ret' = "stopped"
    /\ svc_pc' = "idle"
    /\ UNCHANGED <<use_sdk_preferred, sdk_lib, ws_lib, on_registered, products_arg,
                   granularity_arg, ctor_ret, products, granularity, ioVars, handleVars, bgpc,
                   rawVars, sdkVars, callVars, fell_back, loopVars, routeVars>>

\* lines 94-103: get_websocket_status reads and changes nothing
GetWebsocketStatus ==
    /\ svc_pc = "idle"
    /\ svc_ret' = IF ServiceRunning THEN "is_running" ELSE "is_not_running"
    /\ UNCHANGED <<use_sdk_preferred, sdk_lib, ws_lib, on_registered, products_arg,
                   granularity_arg, ctor_ret, products, granularity, client_instance,
                   data_storage, svc_pc, ioVars, handleVars, bgpc, rawVars, sdkVars, callVars,
                   fell_back, loopVars, routeVars>>

\* the messages the feed sends a client of the service: data of the three channels and
\* the acknowledgement of a subscription
ServiceMessages ==
    {[channel |-> "ticker", type |-> Absent], [channel |-> "candles", type |-> Absent],
     [channel |-> "heartbeats", type |-> Absent], [channel |-> "subscriptions", type |-> Absent]}

\* lines 26-41: _on_ticker, _on_candle and _on_heartbeat store the message under their key
Stored(m) ==
    CASE CalledFor(m) = "on_ticker" -> [data_storage EXCEPT !["ticker"] = <<m>>]
      [] CalledFor(m) = "on_candle" -> [data_storage EXCEPT !["candle"] = <<m>>]
      [] CalledFor(m) = "on_heartbeat" -> [data_storage EXCEPT !["heartbeat"] = <<m>>]
      [] OTHER -> data_storage

\* ws_client.py lines 240-246 and websocket_service.py lines 26-41: a message arrives on
\* the raw connection of a thread, of the current client or of a dropped one, and the
\* router calls the service's callback
ServiceOnMessage(t) ==
    /\ bgpc[t] = "raw_recv"
    /\ sock[rf[t]] = t
    /\ \E m \in ServiceMessages :
          /\ Route(m, FALSE)
          /\ data_storage' = Stored(m)
    /\ UNCHANGED <<use_sdk_preferred, sdk_lib, ws_lib, on_registered, products_arg,
                   granularity_arg, ctor_ret, products, granularity, client_instance, svc_pc,
                   svc_ret, ioVars, handleVars, bgpc, rawVars, sdkVars, callVars, fell_back,
                   loopVars>>

\* a live thread of a client the service has dropped
Orphan(t) == IsAlive(t) /\ t # thread

\* lines 209-265 on a dropped client's thread: it builds its own WebSocketApp
OrphanRaw259(t) ==
    /\ Orphan(t)
    /\ bgpc[t] = "raw_259"
    /\ subscribe_msgs' = SubscribeMsgs(products, granularity)
    /\ keep_running' = [keep_running EXCEPT ![t] = TRUE]
    /\ bgpc' = [bgpc EXCEPT ![t] = "raw_268"]
    /\ UNCHANGED <<cfgVars, cb_on, frames, escaped_at, executing, sent, handleVars, rf, sock,
                   sdkVars, callVars, fell_back, loopVars, routeVars>>

\* line 268 on a dropped client's thread: its stop event is set, the loop ends
OrphanRaw268(t) ==
    /\ Orphan(t)
    /\ bgpc[t] = "raw_268"
    /\ bgpc' = [bgpc EXCEPT ![t] = "dead"]
    /\ Forget(t)
    /\ UNCHANGED <<cfgVars, ioVars, handleVars, rawVars, sdkVars, callVars, fell_back, routeVars>>

\* line 270 on a dropped client's thread that had passed line 268 before the stop event
\* was set: run_forever connects its own WebSocketApp and _on_open subscribes
OrphanRaw270Connect(t) ==
    /\ Orphan(t)
    /\ bgpc[t] = "raw_270"
    /\ sock[t] = None
    /\ keep_running' = [keep_running EXCEPT ![t] = TRUE]
    /\ sock' = [sock EXCEPT ![t] = t]
    /\ rf' = [rf EXCEPT ![t] = t]
    /\ sent' = [sent EXCEPT ![t] = OnOpen(subscribe_msgs, 0)]
    /\ bgpc' = [bgpc EXCEPT ![t] = "raw_recv"]
    /\ UNCHANGED <<cfgVars, feedVars, handleVars, sdkVars, callVars, fell_back, loopVars, routeVars>>

\* line 270 on a dropped client's thread: the connection attempt fails
OrphanRaw270Fail(t) ==
    /\ Orphan(t)
    /\ bgpc[t] = "raw_270"
    /\ sock[t] = None
    /\ keep_running' = [keep_running EXCEPT ![t] = TRUE]
    /\ AttemptEnded(t, FALSE, "returned", TRUE)
    /\ bgpc' = [bgpc EXCEPT ![t] = "raw_275"]
    /\ UNCHANGED <<cfgVars, feedVars, handleVars, rf, sock, sdkVars, callVars, fell_back, routeVars>>

\* lines 275-276 on a dropped client's thread: its stop event is set, the loop ends
OrphanRaw275(t) ==
    /\ Orphan(t)
    /\ bgpc[t] = "raw_275"
    /\ bgpc' = [bgpc EXCEPT ![t] = "dead"]
    /\ Forget(t)
    /\ UNCHANGED <<cfgVars, ioVars, handleVars, rawVars, sdkVars, callVars, fell_back, routeVars>>

\* ------------------------------------------------------------ specification

\* the steps of a caller that is inside start() or stop()
CallerReturns(c) ==
    \/ Start92(c) \/ Start94(c) \/ Start95(c) \/ Start96(c)
    \/ Stop102(c) \/ Stop113(c) \/ Stop127(c)
    \/ Stop129Joined(c) \/ Stop129Timeout(c)
    \/ Stop133(c) \/ Stop134Joined(c) \/ Stop134Timeout(c)

CallerStep(c) == CallStart(c) \/ Stop100(c) \/ CallerReturns(c)

BgStep(t) ==
    \/ Run139(t) \/ Sdk178(t) \/ Sdk179(t) \/ Sdk181(t) \/ Sdk185(t)
    \/ Raw197(t) \/ Raw259(t) \/ Raw268(t)
    \/ Raw270Connect(t) \/ Raw270Fail(t) \/ Raw270Raise(t)
    \/ RecvClosed(t) \/ Raw273(t) \/ Raw275(t) \/ Raw278(t)

EnvStep ==
    \/ \E t \in Threads : RecvDisconnect(t) \/ RecvLost(t) \/ RecvRaise(t)
    \/ \E s \in Threads : SdkDisconnect(s) \/ SdkThreadExit(s)

Next ==
    \/ \E c \in Callers : CallerStep(c)
    \/ \E t \in Threads : BgStep(t)
    \/ EnvStep

\* every start()/stop() sequence of the application against every behaviour of the feed
Spec == Init /\ [][Next]_vars

\* The same program with both transport libraries installed, under fair scheduling:
\* a thread that can take a step takes one, a call that was entered runs to its return,
\* a join's timeout expires.  Nothing obliges the application to call start() or stop()
\* nor the feed to close a connection.
FairInit == Init /\ sdk_lib /\ ws_lib /\ on_registered = Callbacks

Fairness ==
    /\ \A t \in Threads : WF_vars(BgStep(t))
    /\ \A c \in Callers : WF_vars(CallerReturns(c))

FairSpec == FairInit /\ [][Next]_vars /\ Fairness

\* The program with SDK-first preference and the raw library installed, the SDK library
\* installed or not, under the same fair scheduling
FallbackInit == Init /\ use_sdk_preferred /\ ws_lib /\ on_registered = Callbacks

FallbackSpec == FallbackInit /\ [][Next]_vars /\ Fairness

\* A client built from any products and granularity arguments, started once
ConfigInit ==
    /\ use_sdk_preferred \in BOOLEAN
    /\ sdk_lib \in BOOLEAN
    /\ ws_lib \in BOOLEAN
    /\ on_registered = Callbacks
    /\ products_arg \in ProductArgs
    /\ granularity_arg \in GranularityArgs
    /\ ctor_ret = "none"
    /\ products = <<>>
    /\ granularity = ""
    /\ Untouched

ConfigNext ==
    \/ Construct
    \/ \E c \in Callers : (ctor_ret = "ok" /\ thread = None /\ CallStart(c))
    \/ \E c \in Callers : Start92(c) \/ Start94(c) \/ Start95(c) \/ Start96(c)
    \/ \E t \in Threads :
          \/ Run139(t) \/ Sdk178(t) \/ Sdk179(t) \/ Sdk185(t)
          \/ Raw197(t) \/ Raw259(t) \/ Raw268(t) \/ Raw270Connect(t)

ConfigSpec == ConfigInit /\ [][ConfigNext]_vars

\* The application's calls and, on the raw backend, a callback that calls stop() from the
\* background thread; that thread takes no step of its own while its callback runs.
CallbackInit == Init /\ sdk_lib /\ ws_lib /\ on_registered = Callbacks

CallbackNext ==
    \/ \E c \in Callers : CallerStep(c)
    \/ \E t \in Threads : cb_on # t /\ (BgStep(t) \/ RecvDisconnect(t) \/ RecvLost(t) \/ RecvRaise(t))
    \/ \E s \in Threads : SdkDisconnect(s) \/ SdkThreadExit(s)
    \/ \E t \in Threads : CallbackEnters(t) \/ CallbackReturns(t)
    \/ (cb_on # None /\ ret[CallbackCaller] = "none" /\ Stop100(CallbackCaller))
    \/ CallerReturns(CallbackCaller)

CallbackSpec == CallbackInit /\ [][CallbackNext]_vars

\* One start() and a feed that delivers malformed frames and drops the connection
FrameInit == Init /\ sdk_lib /\ ws_lib /\ on_registered = Callbacks

FrameNext ==
    \/ \E c \in Callers : (thread = None /\ CallStart(c))
    \/ \E c \in Callers : Start92(c) \/ Start94(c) \/ Start95(c) \/ Start96(c)
    \/ \E t \in Threads :
          \/ Run139(t) \/ Sdk178(t) \/ Sdk179(t) \/ Sdk185(t)
          \/ Raw197(t) \/ Raw259(t) \/ Raw268(t) \/ Raw270Connect(t)
          \/ RecvDisconnect(t) \/ Raw275(t) \/ Raw278(t)
          \/ OnFrame(t) \/ SdkOnFrame(t)

FrameSpec == FrameInit /\ [][FrameNext]_vars

\* One start() and a feed that delivers frames, drops the connection and is
\* reconnected to: the runs the router's claims are about.
StreamNext ==
    \/ \E c \in Callers : (thread = None /\ CallStart(c))
    \/ \E c \in Callers : Start92(c) \/ Start94(c) \/ Start95(c) \/ Start96(c)
    \/ \E t \in Threads :
          \/ Run139(t) \/ Sdk178(t) \/ Sdk179(t) \/ Sdk185(t)
          \/ Raw197(t) \/ Raw259(t) \/ Raw268(t) \/ Raw270Connect(t)
          \/ RecvDisconnect(t) \/ Raw275(t) \/ Raw278(t)
          \/ OnMessage(t) \/ SdkOnMessage(t)

\* both transport libraries are installed: without them no frame ever arrives
StreamInit == Init /\ sdk_lib /\ ws_lib

StreamSpec == StreamInit /\ [][StreamNext]_vars

\* One start() and a feed that delivers frames, drops the connection and is reconnected
\* to, with connections that break while _on_open is still subscribing
SubscribeInit == Init /\ sdk_lib /\ ws_lib /\ on_registered = Callbacks

SubscribeNext ==
    \/ \E c \in Callers : (thread = None /\ CallStart(c))
    \/ \E c \in Callers : Start92(c) \/ Start94(c) \/ Start95(c) \/ Start96(c)
    \/ \E t \in Threads :
          \/ Run139(t) \/ Sdk178(t) \/ Sdk179(t) \/ Sdk179SubscribeFails(t) \/ Sdk185(t)
          \/ Raw197(t) \/ Raw259(t) \/ Raw268(t)
          \/ Raw270Connect(t) \/ Raw270ConnectSendFails(t)
          \/ RecvClosed(t) \/ RecvDisconnect(t) \/ Raw275(t) \/ Raw278(t)
          \/ OnMessage(t) \/ SdkOnMessage(t)

SubscribeSpec == SubscribeInit /\ [][SubscribeNext]_vars

\* The application's calls and consumer callbacks that take time; a thread that is inside
\* a callback takes no other step.  In the runs where a second application thread calls
\* start(), it does so once, while no thread object exists yet, and no stop() follows.
DispatchInit == Init /\ sdk_lib /\ ws_lib /\ on_registered = Callbacks

\* the second application thread has made no call
SecondCallerIdle == ret[SecondCaller] = "none" /\ callerpc[SecondCaller] = "idle"

DispatchNext ==
    \/ \E c \in Callers : CallStart(c) \/ CallerReturns(c) \/ (SecondCallerIdle /\ Stop100(c))
    \/ (/\ SecondCallerIdle
        /\ \A t \in Threads : bgpc[t] = "unborn"
        /\ CallStart(SecondCaller))
    \/ Start92(SecondCaller) \/ Start94(SecondCaller)
    \/ Start95(SecondCaller) \/ Start96(SecondCaller)
    \/ \E t \in Threads :
          RawUnit(t) \notin executing /\ (BgStep(t) \/ RecvDisconnect(t) \/ RecvLost(t))
    \/ \E s \in Threads : SdkUnit(s) \notin executing /\ (SdkDisconnect(s) \/ SdkThreadExit(s))
    \/ \E t \in Threads : RawCallbackBegins(t) \/ SdkCallbackBegins(t)
    \/ \E u \in executing : CallbackEnds(u)

DispatchSpec == DispatchInit /\ [][DispatchNext]_vars

\* The router alone, called with one message, for every set of registered callbacks
RouterInit == Init

RouterNext == RouteOne

RouterSpec == RouterInit /\ [][RouterNext]_vars

\* A client built from an alias string in any spelling
ResolverInit ==
    /\ use_sdk_preferred = FALSE
    /\ sdk_lib = TRUE
    /\ ws_lib = TRUE
    /\ on_registered = Callbacks
    /\ products_arg = ServiceProducts
    /\ granularity_arg \in {StrArg(text) : text \in AliasSpellings}
    /\ ctor_ret = "none"
    /\ products = <<>>
    /\ granularity = ""
    /\ Untouched

ResolverNext == Construct

ResolverSpec == ResolverInit /\ [][ResolverNext]_vars

\* The service as the application runs it: the raw backend (use_sdk_preferred=False,
\* websocket_service.py line 60) with its library installed, any sequence of
\* start_websocket, stop_websocket and get_websocket_status, and a feed that delivers
\* messages and closes connections.
ServiceInit == Init /\ ~use_sdk_preferred /\ sdk_lib /\ ws_lib /\ on_registered = Callbacks

ServiceNext ==
    \/ StartWebsocket \/ StopWebsocket74 \/ StopWebsocket79 \/ GetWebsocketStatus
    \/ \E c \in Callers :
          svc_pc = "stop_78"
          /\ (Stop102(c) \/ Stop113(c) \/ Stop133(c) \/ Stop134Joined(c) \/ Stop134Timeout(c))
    \/ \E t \in Threads :
          \/ Run139(t) \/ Raw197(t) \/ Raw278(t) \/ RecvClosed(t) \/ RecvDisconnect(t)
          \/ (t = thread /\ (Raw259(t) \/ Raw268(t) \/ Raw270Connect(t) \/ Raw270Fail(t)
                              \/ Raw275(t)))
          \/ OrphanRaw259(t) \/ OrphanRaw268(t) \/ OrphanRaw270Connect(t)
          \/ OrphanRaw270Fail(t) \/ OrphanRaw275(t)
          \/ ServiceOnMessage(t)

ServiceSpec == ServiceInit /\ [][ServiceNext]_vars

\* ------------------------------------------------------------------- claims

\* C1: a start() made while the background thread is alive returns at once; that step
\* creates no thread, opens no connection and leaves the thread handle, the stop signal
\* and the transport handles unchanged, and no two background threads are ever alive.
C1_SecondStartIsNoOp ==
    /\ [][\A c \in Callers :
            (/\ callerpc[c] = "start_92"
             /\ callerpc'[c] # "start_92"
             /\ thread # None
             /\ IsAlive(thread))
            => (/\ callerpc'[c] = "idle"
                /\ ret'[c] = "start_noop"
                /\ UNCHANGED <<thread, stop_event, ws, sdk_client, bgpc, sock, sdk_conn>>)]_vars
    /\ [](Cardinality({t \in Threads : IsAlive(t)}) <= 1)

\* a second start() has returned while the first thread is alive and connected
C1_Witness ==
    \E c \in Callers :
        /\ callerpc[c] = "idle"
        /\ ret[c] = "start_noop"
        /\ thread # None
        /\ IsAlive(thread)
        /\ Cardinality({t \in Threads : IsAlive(t)}) = 1
        /\ Cardinality(ActiveTransports) = 1

\* C2: the time limits of the waits one stop(timeout=T) performs sum to at most T
\* (join_limits counts them in units of T).
C2_StopWaitsAtMostTimeout == \A c \in Callers : join_limits[c] <= 1

\* C3: at most one transport (SDK client or raw socket) holds an open connection.
C3_AtMostOneActiveTransport == Cardinality(ActiveTransports) <= 1

\* C4 as stated: a background thread terminates only when the stop signal is set.
C4_ExitsOnlyAfterStop ==
    [][\A t \in Threads : (IsAlive(t) /\ bgpc'[t] = "dead") => stop_event]_vars

\* C4: a background thread terminates only when the stop signal is set, or when the raw
\* backend's library cannot be imported (lines 196-207).
C4_ExitsAfterStopOrMissingLibrary ==
    [][\A t \in Threads :
            (IsAlive(t) /\ bgpc'[t] = "dead")
            => (stop_event \/ (bgpc[t] = "raw_197" /\ ~ws_lib))]_vars

\* a thread that had built its WebSocketApp has left the loop after stop() set the signal
C4_Witness == \E t \in Threads : bgpc[t] = "dead" /\ ws = t /\ stop_event

\* C5: for either backend, a disconnect or a failed connect attempt that happens while
\* no stop is requested is eventually followed by a new connection attempt (or by a
\* stop request).
C5_DisconnectLeadsToReattempt ==
    \A t \in Threads :
        (/\ ~stop_event
         /\ \/ bgpc[t] \in {"raw_273", "raw_275", "sdk_185"}
            \/ (bgpc[t] = "sdk_181" /\ sdk_conn[t] = "closed"))
        ~> (stop_event \/ bgpc[t] \in {"raw_270", "sdk_178", "sdk_179"})

\* C6: once the stop signal is set, every background thread that is alive eventually exits.
C6_StopLeadsToExit ==
    \A t \in Threads : (stop_event /\ IsAlive(t)) ~> ~IsAlive(t)

ExpectedHandler(tag) ==
    CASE tag \in {"ticker", "ticker_batch"} -> "on_ticker"
      [] tag \in {"candles", "candle"} -> "on_candle"
      [] tag \in {"heartbeat", "heartbeats"} -> "on_heartbeat"
      [] OTHER -> "none"

\* the calls the specification expects for a sequence of messages: one call of the
\* registered callback per message of a recognized channel, in input order
RECURSIVE ExpectedCalls(_)
ExpectedCalls(msgs) ==
    IF msgs = <<>> THEN <<>>
    ELSE LET front == ExpectedCalls(SubSeq(msgs, 1, Len(msgs) - 1))
             h == ExpectedHandler(ChannelOf(msgs[Len(msgs)]))
         IN IF h \in on_registered THEN Append(front, h) ELSE front

\* C9: the calls the router has made are exactly one call of the registered callback per
\* message of a recognized channel, in input order; every other message calls nothing.
C9_RouterDispatch == invoked = ExpectedCalls(inbox)

\* a subscriptions message called nothing and the candle message after it called on_candle
C9_Witness ==
    /\ Len(inbox) = 2
    /\ inbox[1].channel = "subscriptions"
    /\ inbox[2].channel = "candle"
    /\ invoked = <<"on_candle">>

\* C10: routing a message, whether or not its callback raises, leaves the thread in its
\* receive and the connection open, and after a callback has raised every later message
\* of a recognized channel has still called its registered callback.
C10_CallbackFaultIsolated ==
    /\ [][inbox' # inbox => UNCHANGED <<bgpc, rf, sock, sdk_conn, sdk_thread>>]_vars
    /\ [](raised_at # 0 =>
            \A i \in raised_at..Len(inbox) :
                Len(ExpectedCalls(SubSeq(inbox, 1, i))) <= Len(invoked)
                /\ (ExpectedHandler(ChannelOf(inbox[i])) \in on_registered
                    => invoked[Len(ExpectedCalls(SubSeq(inbox, 1, i)))]
                          = ExpectedHandler(ChannelOf(inbox[i]))))

\* the first message's callback raised and the second message still reached its callback
\* over the same open raw connection
C10_Witness ==
    /\ raised_at = 1
    /\ Len(inbox) = 2
    /\ Len(invoked) = 2
    /\ \E t \in Threads : bgpc[t] = "raw_recv" /\ sock[t] = t

\* the specification's alias table: input and expected canonical value
AliasTable ==
    {<<StrArg(<<"1", "m">>), "ONE_MINUTE">>,
     <<StrArg(<<"5", "m">>), "FIVE_MINUTE">>,
     <<StrArg(<<"1", "5", "m">>), "FIFTEEN_MINUTE">>,
     <<StrArg(<<"3", "0", "m">>), "THIRTY_MINUTE">>,
     <<StrArg(<<"1", "h">>), "ONE_HOUR">>,
     <<StrArg(<<"1", "d">>), "ONE_DAY">>,
     <<StrArg(<<"O", "N", "E", "_", "M", "I", "N", "U", "T", "E">>), "ONE_MINUTE">>,
     <<StrArg(<<"F", "I", "V", "E", "_", "M", "I", "N", "U", "T", "E">>), "FIVE_MINUTE">>,
     <<StrArg(<<"F", "I", "F", "T", "E", "E", "N", "_", "M", "I", "N", "U", "T", "E">>), "FIFTEEN_MINUTE">>,
     <<StrArg(<<"T", "H", "I", "R", "T", "Y", "_", "M", "I", "N", "U", "T", "E">>), "THIRTY_MINUTE">>,
     <<StrArg(<<"O", "N", "E", "_", "H", "O", "U", "R">>), "ONE_HOUR">>,
     <<StrArg(<<"O", "N", "E", "_", "D", "A", "Y">>), "ONE_DAY">>,
     <<IntArg(60), "ONE_MINUTE">>,
     <<IntArg(300), "FIVE_MINUTE">>,
     <<IntArg(900), "FIFTEEN_MINUTE">>,
     <<IntArg(1800), "THIRTY_MINUTE">>,
     <<IntArg(3600), "ONE_HOUR">>,
     <<IntArg(86400), "ONE_DAY">>}

\* inputs no entry of the alias table matches, whatever their case or surrounding blanks
UnrecognizedArgs ==
    {NoneArg, StrArg(<<"b", "o", "g", "u", "s">>), StrArg(<<>>), StrArg(<<"2", "h">>), StrArg(<<"m", "1">>),
     StrArg(<<"6", "0">>), StrArg(<<"8", "6", "4", "0", "0">>), IntArg(0), IntArg(1), IntArg(61), IntArg(30)}

\* C12 as stated: a client given an empty product list is not constructed, gets no
\* background thread and builds no subscribe request.
C12_EmptyProductsRejected ==
    products_arg = ProductList(<<>>)
        => (ctor_ret # "ok" /\ thread = None /\ subscribe_msgs = <<>>)

\* C12: the constructor never fails; an absent or empty product list is replaced by
\* ["BTC-USD"], any other list is kept, and the subscribe requests of the started client
\* are scoped to that non-empty list.
C12_EmptyProductsDefaulted ==
    /\ ctor_ret # "raised"
    /\ ctor_ret = "ok" =>
          /\ products # <<>>
          /\ products = (IF products_arg \in {NoProducts, ProductList(<<>>)}
                            THEN <<"BTC-USD">> ELSE products_arg.items)
          /\ subscribe_msgs # <<>> => subscribe_msgs[1].product_ids = products

\* a client built with an empty product list has a thread and has built its requests
C12_Witness ==
    /\ products_arg = ProductList(<<>>)
    /\ ctor_ret = "ok"
    /\ thread # None
    /\ subscribe_msgs # <<>>
    /\ subscribe_msgs[1].product_ids = <<"BTC-USD">>

\* C15: the resolver returns the expected value for every entry of the alias table,
\* THIRTY_MINUTE for every unrecognized or absent input, and always a canonical value.
C15_ResolverTable ==
    ctor_ret = "ok" =>
        /\ \A e \in AliasTable : granularity_arg = e[1] => granularity = e[2]
        /\ granularity_arg \in UnrecognizedArgs => granularity = "THIRTY_MINUTE"
        /\ granularity \in CanonicalGranularities

\* the integer 3600 has been resolved to ONE_HOUR
C15_Witness ==
    ctor_ret = "ok" /\ granularity_arg = IntArg(3600) /\ granularity = "ONE_HOUR"

\* the seconds values as the command line or the environment delivers them
DigitStrings ==
    {<<<<"6", "0">>, 60>>,
     <<<<"3", "0", "0">>, 300>>,
     <<<<"9", "0", "0">>, 900>>,
     <<<<"1", "8", "0", "0">>, 1800>>,
     <<<<"3", "6", "0", "0">>, 3600>>,
     <<<<"8", "6", "4", "0", "0">>, 86400>>}

\* C16: a granularity given as a string of decimal digits resolves to the same value as
\* the integer it spells.
C16_DigitStringsAsSeconds ==
    ctor_ret = "ok" =>
        \A d \in DigitStrings :
            granularity_arg = StrArg(d[1]) => granularity = ResolveGranularity(IntArg(d[2]))

\* C17: the requests a raw connection builds are exactly three, in this order: ticker
\* scoped to the products, candles scoped to the products with the resolved granularity,
\* heartbeats with an empty product list.
C17_ThreeSubscribeRequests ==
    subscribe_msgs # <<>> =>
        /\ Len(subscribe_msgs) = 3
        /\ \A i \in 1..3 : subscribe_msgs[i].type = "subscribe"
        /\ subscribe_msgs[1].channel = "ticker"
        /\ subscribe_msgs[1].product_ids = products
        /\ subscribe_msgs[2].channel = "candles"
        /\ subscribe_msgs[2].product_ids = products
        /\ subscribe_msgs[2].granularity = granularity
        /\ granularity \in CanonicalGranularities
        /\ subscribe_msgs[3].channel = "heartbeats"
        /\ subscribe_msgs[3].product_ids = <<>>
        /\ subscribe_msgs[1].granularity = Absent
        /\ subscribe_msgs[3].granularity = Absent

\* the requests of a client for two products and hourly candles have been built
C17_Witness ==
    /\ subscribe_msgs # <<>>
    /\ products = <<"ETH-USD", "BTC-USD">>
    /\ subscribe_msgs[2].granularity = "ONE_HOUR"
    /\ \E t \in Threads : bgpc[t] = "raw_recv"

\* C11: no malformed frame, whether it is not JSON or the JSON of a value that is not an
\* object, makes an exception leave the message handler.
C11_MalformedFramesDropped == escaped_at = 0

\* C13: no call of start() or stop() ends with an exception, whichever thread makes it,
\* a callback running on the background thread included.
C13_PublicCallsRaiseNothing ==
    \A c \in AllCallers : ret[c] \notin {"start_raised", "stop_raised"}

\* a step of stop() made by caller c
StopStep(c) ==
    /\ callerpc'[c] # callerpc[c]
    /\ \/ callerpc'[c] = "stop_102"
       \/ callerpc[c] \in {"stop_102", "stop_113", "stop_127", "stop_129", "stop_133",
                            "stop_134"}

\* C14: a stop() on a client that was never started, or whose last call was a stop() that
\* saw the thread finish, creates no thread, closes nothing that is open, changes no handle
\* and raises nothing.
C14_StopIdempotent ==
    [][\A c \in Callers :
            (StopStep(c) /\ ret[c] \in {"none", "stop_returned"})
            => (/\ UNCHANGED <<thread, ws, sdk_client, bgpc, sock, sdk_conn>>
                /\ stop_event'
                /\ ret'[c] # "stop_raised")]_vars

\* C20: every attempt that ended in a failure of the transport, whether run_forever
\* returned after a failed connect or raised, has been reported to on_error.
C20_FailuresReachOnError ==
    \A t \in Threads :
        (ended[t] = "raised" \/ (ended[t] = "returned" /\ fails[t] > 0)) => notified[t]

\* C18: with SDK-first preference and no loadable SDK library, no SDK client is ever
\* built or opened, and a started background thread goes on to a connection attempt on
\* the raw backend (unless a stop is requested first).
C18_MissingSdkFallsBack ==
    /\ [](~sdk_lib => (sdk_client = None /\ \A s \in Threads :
                            sdk_conn[s] = "none" /\ sdk_thread[s] = "none"))
    /\ \A t \in Threads :
          (bgpc[t] = "run" /\ ~sdk_lib) ~> (stop_event \/ (bgpc[t] = "raw_270" /\ fell_back[t]))

\* without the SDK library, the thread of the first start() is connected on the raw backend
C18_Witness ==
    /\ ~sdk_lib
    /\ use_sdk_preferred
    /\ \E t \in Threads :
          bgpc[t] = "raw_recv" /\ fell_back[t] /\ ended[t] = "none" /\ sock[t] = t
    /\ \A c \in Callers : ret[c] = "start_new"

\* C19: with SDK-first preference, every failure of the SDK backend, a termination of
\* its connection after open() included, is eventually followed by the fallback to the
\* raw backend (or by a stop request).
C19_SdkFailureLeadsToFallback ==
    \A t \in Threads :
        (/\ ~stop_event
         /\ \/ bgpc[t] = "sdk_185"
            \/ (bgpc[t] = "sdk_181" /\ sdk_conn[t] # "open"))
        ~> (stop_event \/ fell_back[t])

IsOpen(t) == (bgpc[t] = "raw_recv" /\ sock[rf[t]] = t) \/ sdk_conn[t] = "open"

\* the channels of the subscribe requests sent on a connection, in order
SentChannels(t) == [i \in 1..Len(sent[t]) |-> sent[t][i].channel]

C23_NoAttemptAfterStop ==
    [][\A t \in Threads :
            stop_event => ~(bgpc[t] \in {"raw_270", "sdk_179"} /\ bgpc'[t] # bgpc[t])]_vars

\* the last call of the application was a start() and it has returned normally
StartReturned == \E c \in Callers : callerpc[c] = "idle" /\ ret[c] \in {"start_new", "start_noop"}

\* C24: from the return of a start() until the next call, the client's background thread
\* is alive, and it eventually attempts a connection (unless another call is made first);
\* the start() may be the first, one after a completed stop() or one after a stop() that
\* returned on its timeout.
C24_StartedIsAliveAndAttempts ==
    /\ [](StartReturned => (thread # None /\ IsAlive(thread)))
    /\ (StartReturned ~>
            (~StartReturned
             \/ \E t \in Threads : bgpc[t] \in {"raw_270", "raw_recv", "sdk_179", "sdk_181"}))

\* C25: at no time are two callbacks of the client executing: at most one thread is
\* inside a consumer callback.
C25_CallbacksNeverConcurrent == Cardinality(executing) <= 1

\* the tags the specification's routing table recognizes
RecognizedTags == {"ticker", "ticker_batch", "candles", "candle", "heartbeat", "heartbeats"}

\* the calls the specification expects for one message that carries a tag
CallsForTag(tag) ==
    IF ExpectedHandler(tag) \in on_registered THEN <<ExpectedHandler(tag)>> ELSE <<>>

\* C26: a message without a channel field, or with an empty one, whose type field is a
\* recognized tag is dispatched as a message with that tag in channel; a message with
\* both fields present and non-empty is dispatched by its channel field alone.
C26_ChannelOrLegacyType ==
    Len(inbox) = 1 =>
        /\ (inbox[1].channel \in {Absent, ""} /\ inbox[1].type \in RecognizedTags)
              => invoked = CallsForTag(inbox[1].type)
        /\ (inbox[1].channel \notin {Absent, ""} /\ inbox[1].type \notin {Absent, ""})
              => invoked = CallsForTag(inbox[1].channel)

\* a message that has only the legacy type field "candles" has called on_candle, and so
\* the router was given a message of the old spelling
C26_Witness ==
    /\ inbox = <<[channel |-> Absent, type |-> "candles"]>>
    /\ invoked = <<"on_candle">>

\* C27: on the SDK backend the candles subscription requested at open is scoped to the
\* configured products and carries the client's resolved granularity.
C27_SdkCandlesCarryGranularity ==
    \A s \in Threads :
        sdk_conn[s] = "open" =>
            \E i \in 1..Len(sent[s]) :
                /\ sent[s][i].channel = "candles"
                /\ sent[s][i].product_ids = products
                /\ sent[s][i].granularity = granularity

\* two characters are the same letter in either case, or the same character
SameIgnoringCase(a, b) ==
    \/ a = b
    \/ \E k \in 1..Len(LowerLetters) : {a, b} = {LowerLetters[k], UpperLetters[k]}

\* text spells alias in some mix of case, with nothing but whitespace around it
Spells(text, alias) ==
    \E first \in 1..(Len(text) + 1) :
        /\ first + Len(alias) - 1 <= Len(text)
        /\ \A k \in 1..Len(alias) : SameIgnoringCase(text[first + k - 1], alias[k])
        /\ \A i \in 1..Len(text) :
              (i < first \/ i > first + Len(alias) - 1) => text[i] \in {" ", "\t", "\n"}

\* the characters of a canonical value
CanonicalText(value) ==
    CASE value = "ONE_MINUTE" -> <<"O", "N", "E", "_", "M", "I", "N", "U", "T", "E">>
      [] value = "FIVE_MINUTE" -> <<"F", "I", "V", "E", "_", "M", "I", "N", "U", "T", "E">>
      [] value = "FIFTEEN_MINUTE" ->
            <<"F", "I", "F", "T", "E", "E", "N", "_", "M", "I", "N", "U", "T", "E">>
      [] value = "THIRTY_MINUTE" -> <<"T", "H", "I", "R", "T", "Y", "_", "M", "I", "N", "U", "T", "E">>
      [] value = "ONE_HOUR" -> <<"O", "N", "E", "_", "H", "O", "U", "R">>
      [] value = "ONE_DAY" -> <<"O", "N", "E", "_", "D", "A", "Y">>
      [] OTHER -> <<>>

\* C30: a string that spells an entry of the alias table in any mix of case and with any
\* surrounding whitespace resolves to that entry's canonical value, and resolving the
\* resolved value again returns it unchanged.
C30_CaseInsensitiveAndIdempotent ==
    (ctor_ret = "ok" /\ granularity_arg.type = "str") =>
        /\ \A e \in AliasTable :
              (e[1].type = "str" /\ Spells(granularity_arg.text, e[1].text))
                  => granularity = e[2]
        /\ granularity \in CanonicalGranularities
        /\ ResolveGranularity(StrArg(CanonicalText(granularity))) = granularity

\* the string " oNe_hOuR" followed by a newline and a tab has been resolved to ONE_HOUR
C30_Witness ==
    /\ ctor_ret = "ok"
    /\ granularity_arg = StrArg(<<" ", "o", "N", "e", "_", "h", "O", "u", "R", "\n", "\t">>)
    /\ granularity = "ONE_HOUR"

\* C28: at most one background thread of the clients the service has created is alive.
C28_ServiceHasOneLiveThread == Cardinality({t \in Threads : IsAlive(t)}) <= 1

\* C29: from the return of a successful stop_websocket until the next start_websocket,
\* while the service holds no client, data_storage holds no value for any key.
C29_StoppedServiceHoldsNoData ==
    (client_instance = None /\ svc_pc = "idle") => \A key \in StorageKeys : data_storage[key] = <<>>

====
